---- MODULE Spec2Model ----
(***************************************************************************)
(* A model of the in-memory time series database: Point (point.py),        *)
(* Series (series.py), Query (query.py), InMemoryTSDB (database.py),       *)
(* Aggregate (aggregate.py) and AggregateMetric (aggregatemetric.py).      *)
(*                                                                         *)
(* Python values are modelled as follows.                                  *)
(*   str       a sequence of one-character strings, so that formatting,    *)
(*             concatenation and lexicographic order are computed          *)
(*   dict      a sequence of <<key, value>> pairs with distinct keys, in   *)
(*             insertion order (Python dicts iterate in insertion order)   *)
(*   Optional  None, or Some(v)                                            *)
(*   datetime  a positive integer                                          *)
(*   object    a Point carries the field id, its object identity           *)
(*   float     the rational it stands for, as a reduced fraction            *)
(*             [num, den]; exact for the sums of small integers computed    *)
(*             here, and for their quotients up to rounding                 *)
(*   field     where the type of a field value matters (aggregate.py) the   *)
(*   value     value carries it: [int |-> n], [str |-> s], [bool |-> b];    *)
(*             elsewhere a field value is a number                          *)
(***************************************************************************)
EXTENDS Integers, Sequences, FiniteSets, TLC

VARIABLES _series, _measurements, series, nextId, op, ret

vars == <<_series, _measurements, series, nextId, op, ret>>

----------------------------------------------------------------------------
(* Bounds of the model *)

\* points ever written to the database in one behaviour
MaxWrites == 2
\* points ever added to the single Series of SeriesSpec
MaxPoints == 4
\* timestamps are 1..MaxTime
MaxTime == 3
\* tags per point in KeySpec
MaxTags == 2
\* where_field predicates per query in FilterSpec
MaxFilters == 2
MaxOrderWrites == 4

----------------------------------------------------------------------------
(* Python built-ins *)

None == [none |-> TRUE]
Some(v) == [some |-> v]

Min(a, b) == IF a < b THEN a ELSE b
Max(a, b) == IF a > b THEN a ELSE b

\* float arithmetic on non-negative values: float(n / d), x + n, x / n
RECURSIVE GCD(_, _)
GCD(a, b) == IF b = 0 THEN a ELSE GCD(b, a % b)

Float(num, den) == LET g == GCD(num, den) IN [num |-> num \div g, den |-> den \div g]
FloatAdd(x, n) == Float(x.num + n * x.den, x.den)
FloatDiv(x, n) == Float(x.num, x.den * n)

\* code points of the characters the model's strings are made of
Code(c) ==
  CASE c = "," -> 44
    [] c = "-" -> 45
    [] c = "=" -> 61
    [] c = "a" -> 97
    [] c = "c" -> 99
    [] c = "e" -> 101
    [] c = "f" -> 102
    [] c = "g" -> 103
    [] c = "i" -> 105
    [] c = "j" -> 106
    [] c = "k" -> 107
    [] c = "l" -> 108
    [] c = "m" -> 109
    [] c = "n" -> 110
    [] c = "o" -> 111
    [] c = "p" -> 112
    [] c = "r" -> 114
    [] c = "s" -> 115
    [] c = "t" -> 116
    [] c = "u" -> 117
    [] c = "v" -> 118
    [] c = "w" -> 119

\* str < str: lexicographic by code point
RECURSIVE StrLess(_, _)
StrLess(a, b) ==
  IF b = <<>> THEN FALSE
  ELSE IF a = <<>> THEN TRUE
  ELSE IF Code(a[1]) # Code(b[1]) THEN Code(a[1]) < Code(b[1])
  ELSE StrLess(Tail(a), Tail(b))

\* tuple < tuple for (key, value) items: first component, then second
ItemLess(x, y) == StrLess(x[1], y[1]) \/ (x[1] = y[1] /\ StrLess(x[2], y[2]))

\* one step of a stable sort: x goes before the first element greater than it
RECURSIVE SortedInsert(_, _)
SortedInsert(s, x) ==
  IF s = <<>> THEN <<x>>
  ELSE IF ItemLess(x, s[1]) THEN <<x>> \o s
  ELSE <<s[1]>> \o SortedInsert(Tail(s), x)

\* sorted(iterable) on a list of items
RECURSIVE sorted(_)
sorted(s) ==
  IF s = <<>> THEN <<>>
  ELSE SortedInsert(sorted(SubSeq(s, 1, Len(s) - 1)), s[Len(s)])

\* sep.join(parts)
RECURSIVE join(_, _)
join(sep, parts) ==
  IF parts = <<>> THEN <<>>
  ELSE IF Len(parts) = 1 THEN parts[1]
  ELSE parts[1] \o sep \o join(sep, Tail(parts))

\* dict operations; d.items() is d itself
DictKeys(d) == {d[i][1] : i \in DOMAIN d}
DictHas(d, k) == \E i \in DOMAIN d : d[i][1] = k
DictGet(d, k) == d[CHOOSE i \in DOMAIN d : d[i][1] = k][2]
DictSet(d, k, v) ==
  IF DictHas(d, k)
  THEN [i \in DOMAIN d |-> IF d[i][1] = k THEN <<k, v>> ELSE d[i]]
  ELSE Append(d, <<k, v>>)
DictDel(d, k) == SelectSeq(d, LAMBDA e : e[1] # k)
DictValues(d) == [i \in DOMAIN d |-> d[i][2]]
\* dict == dict: the same key/value pairs, whatever the insertion order
DictEq(d1, d2) == {d1[i] : i \in DOMAIN d1} = {d2[i] : i \in DOMAIN d2}

\* d.update(other)
RECURSIVE DictUpdate(_, _)
DictUpdate(d, other) ==
  IF other = <<>> THEN d
  ELSE DictUpdate(DictSet(d, other[1][1], other[1][2]), Tail(other))

\* list.insert(idx, v) for 0 <= idx <= len(l)
ListInsert(l, idx, v) == SubSeq(l, 1, idx) \o <<v>> \o SubSeq(l, idx + 1, Len(l))

\* l[start:stop], start and stop optional integers, negative ones counted
\* from the end, both clamped to the list
SliceIndex(l, i) == IF i < 0 THEN Max(Len(l) + i, 0) ELSE Min(i, Len(l))
PySlice(l, start, stop) ==
  LET lo == IF start = None THEN 0 ELSE SliceIndex(l, start.some)
      hi == IF stop = None THEN Len(l) ELSE SliceIndex(l, stop.some)
  IN  SubSeq(l, lo + 1, hi)

\* bisect.bisect_left(a, x): binary search, 0-based result
RECURSIVE BisectLeftLoop(_, _, _, _)
BisectLeftLoop(a, x, lo, hi) ==
  IF lo < hi
  THEN LET mid == (lo + hi) \div 2
       IN  IF a[mid + 1] < x
           THEN BisectLeftLoop(a, x, mid + 1, hi)
           ELSE BisectLeftLoop(a, x, lo, mid)
  ELSE lo
bisect_left(a, x) == BisectLeftLoop(a, x, 0, Len(a))

\* bisect.bisect_right(a, x)
RECURSIVE BisectRightLoop(_, _, _, _)
BisectRightLoop(a, x, lo, hi) ==
  IF lo < hi
  THEN LET mid == (lo + hi) \div 2
       IN  IF x < a[mid + 1]
           THEN BisectRightLoop(a, x, lo, mid)
           ELSE BisectRightLoop(a, x, mid + 1, hi)
  ELSE lo
bisect_right(a, x) == BisectRightLoop(a, x, 0, Len(a))

----------------------------------------------------------------------------
(* point.py *)

\* Point(measurement, fields, tags, timestamp) with __post_init__; now is
\* the value datetime.now() returns, id the identity of the new object
Point(measurement, fields, tags, timestamp, now, id) ==
  [measurement |-> measurement,
   fields      |-> fields,
   tags        |-> IF tags = None THEN <<>> ELSE tags.some,
   timestamp   |-> IF timestamp = None THEN now ELSE timestamp.some,
   id          |-> id]

\* f"{k}={v}"
FormatItem(item) == item[1] \o <<"=">> \o item[2]

\* get_series_key without the sort: the tags in insertion order
get_series_key_unsorted(point) ==
  IF point.tags = <<>>
  THEN point.measurement
  ELSE LET tag_str == join(<<",">>,
                           [i \in DOMAIN point.tags |-> FormatItem(point.tags[i])])
       IN  point.measurement \o <<",">> \o tag_str

get_series_key(point) ==
  IF point.tags = <<>>
  THEN point.measurement
  ELSE LET sorted_tags == sorted(point.tags)
           tag_str == join(<<",">>,
                           [i \in DOMAIN sorted_tags |-> FormatItem(sorted_tags[i])])
       IN  point.measurement \o <<",">> \o tag_str

----------------------------------------------------------------------------
(* series.py *)

Series(measurement, tags) ==
  [measurement |-> measurement, tags |-> tags,
   _points |-> <<>>, _timestamps |-> <<>>]

\* add_point with the new point appended, whatever its timestamp
InsertIndexAtEnd(timestamps, timestamp) == Len(timestamps)

\* add_point with bisect_right in place of bisect_left
InsertIndexRight(timestamps, timestamp) == bisect_right(timestamps, timestamp)

InsertIndex(timestamps, timestamp) == bisect_left(timestamps, timestamp)

\* add_point inserting the point at its sorted place but appending its
\* timestamp at the end of _timestamps
add_point_timestamp_appended(s, point) ==
  LET timestamp == point.timestamp
      idx == InsertIndex(s._timestamps, timestamp)
  IN  [s EXCEPT !._timestamps = Append(@, timestamp),
                !._points = ListInsert(@, idx, point)]

add_point(s, point) ==
  LET timestamp == point.timestamp
      idx == InsertIndex(s._timestamps, timestamp)
  IN  [s EXCEPT !._timestamps = ListInsert(@, idx, timestamp),
                !._points = ListInsert(@, idx, point)]

\* query_range taking the two bounds in either order: the range between
\* the smaller and the larger one
query_range_either_order(s, start, end) ==
  IF s._points = <<>> THEN <<>>
  ELSE LET lo == IF start # None /\ end # None /\ start.some > end.some THEN end ELSE start
           hi == IF start # None /\ end # None /\ start.some > end.some THEN start ELSE end
           start_idx == IF lo = None THEN 0 ELSE bisect_left(s._timestamps, lo.some)
           end_idx == IF hi = None THEN Len(s._points) ELSE bisect_right(s._timestamps, hi.some)
       IN  PySlice(s._points, Some(start_idx), Some(end_idx))

\* query_range with bisect_left for the end bound: the end is excluded
query_range_exclusive_end(s, start, end) ==
  IF s._points = <<>> THEN <<>>
  ELSE LET start_idx == IF start = None THEN 0
                        ELSE bisect_left(s._timestamps, start.some)
           end_idx == IF end = None THEN Len(s._points)
                      ELSE bisect_left(s._timestamps, end.some)
       IN  PySlice(s._points, Some(start_idx), Some(end_idx))

query_range(s, start, end) ==
  IF s._points = <<>> THEN <<>>
  ELSE LET start_idx == IF start = None THEN 0
                        ELSE bisect_left(s._timestamps, start.some)
           end_idx == IF end = None THEN Len(s._points)
                      ELSE bisect_right(s._timestamps, end.some)
       IN  PySlice(s._points, Some(start_idx), Some(end_idx))

\* get_latest cutting from the front: the first n points
get_latest_from_front(s, n) == IF n > 0 THEN PySlice(s._points, None, Some(n)) ELSE <<>>

get_latest(s, n) == IF n > 0 THEN PySlice(s._points, Some(-n), None) ELSE <<>>

get_oldest(s, n) == IF n > 0 THEN PySlice(s._points, None, Some(n)) ELSE <<>>

count(s) == Len(s._points)

\* the pair get_time_range returns
get_time_range(s) ==
  IF s._timestamps = <<>> THEN <<None, None>>
  ELSE <<s._timestamps[1], s._timestamps[Len(s._timestamps)]>>

Series_clear(s) == [s EXCEPT !._points = <<>>, !._timestamps = <<>>]

----------------------------------------------------------------------------
(* what a call produces: a returned value, or a raised exception *)

Return(v) == [exc |-> None, value |-> v]
Raise(e) == [exc |-> Some(e), value |-> None]

----------------------------------------------------------------------------
(* query.py *)

\* Query(): the state __init__ sets
Query ==
  [_measurement |-> None, _tags |-> None, _start_time |-> None,
   _end_time |-> None, _field_filters |-> <<>>, _limit |-> None]

from_measurement(q, measurement) == [q EXCEPT !._measurement = Some(measurement)]

\* where_tags replacing the tag filter instead of merging into it
where_tags_replacing(q, tags) == [q EXCEPT !._tags = Some(tags)]

where_tags(q, tags) ==
  LET current == IF q._tags = None THEN <<>> ELSE q._tags.some
  IN  [q EXCEPT !._tags = Some(DictUpdate(current, tags))]

time_range(q, start, end) == [q EXCEPT !._start_time = start, !._end_time = end]

\* the predicate is kept as the values its closure captures
where_field(q, field_name, operator, value) ==
  [q EXCEPT !._field_filters =
     Append(@, [field_name |-> field_name, operator |-> operator, value |-> value])]

limit(q, n) == [q EXCEPT !._limit = Some(n)]

\* filter_func taking an absent field as different from every value, so
\* that "!=" holds for it
filter_func_absent_differs(f, point) ==
  LET Bool(b) == IF b THEN "True" ELSE "False"
  IN  IF ~DictHas(point.fields, f.field_name) THEN Bool(f.operator = "!=")
      ELSE LET field_value == DictGet(point.fields, f.field_name)
           IN  CASE f.operator = "="  -> Bool(field_value = f.value)
                 [] f.operator = "!=" -> Bool(field_value # f.value)
                 [] f.operator = ">"  -> Bool(field_value > f.value)
                 [] f.operator = "<"  -> Bool(field_value < f.value)
                 [] f.operator = ">=" -> Bool(field_value >= f.value)
                 [] f.operator = "<=" -> Bool(field_value <= f.value)
                 [] OTHER -> "ValueError"

\* the closure filter_func of where_field, applied to a point:
\* "True", "False", or the exception it raises
filter_func(f, point) ==
  IF ~DictHas(point.fields, f.field_name) THEN "False"
  ELSE LET field_value == DictGet(point.fields, f.field_name)
           Bool(b) == IF b THEN "True" ELSE "False"
       IN  CASE f.operator = "="  -> Bool(field_value = f.value)
             [] f.operator = "!=" -> Bool(field_value # f.value)
             [] f.operator = ">"  -> Bool(field_value > f.value)
             [] f.operator = "<"  -> Bool(field_value < f.value)
             [] f.operator = ">=" -> Bool(field_value >= f.value)
             [] f.operator = "<=" -> Bool(field_value <= f.value)
             [] OTHER -> "ValueError"

\* matches_tags satisfied by any one pair of the filter instead of all
matches_tags_any(q, point_tags) ==
  IF q._tags = None THEN TRUE
  ELSE \E i \in DOMAIN q._tags.some :
         LET key == q._tags.some[i][1]
             value == q._tags.some[i][2]
         IN  ~(~DictHas(point_tags, key) \/ DictGet(point_tags, key) # value)

matches_tags(q, point_tags) ==
  IF q._tags = None THEN TRUE
  ELSE \A i \in DOMAIN q._tags.some :
         LET key == q._tags.some[i][1]
             value == q._tags.some[i][2]
         IN  ~(~DictHas(point_tags, key) \/ DictGet(point_tags, key) # value)

matches_measurement(q, measurement) ==
  IF q._measurement = None THEN TRUE
  ELSE q._measurement.some = measurement

\* all(filter_func(point) for filter_func in filters): stops at the first
\* False, and at the first filter that raises
RECURSIVE AllFilters(_, _)
AllFilters(filters, point) ==
  IF filters = <<>> THEN "True"
  ELSE LET r == filter_func(filters[1], point)
       IN  IF r = "True" THEN AllFilters(Tail(filters), point) ELSE r

matches_field_filters(q, point) == AllFilters(q._field_filters, point)

\* the inner loop of execute over the points of one series
RECURSIVE ExecutePoints(_, _, _)
ExecutePoints(q, points, results) ==
  IF points = <<>> THEN Return(results)
  ELSE LET r == matches_field_filters(q, points[1])
       IN  IF r = "True" THEN ExecutePoints(q, Tail(points), Append(results, points[1]))
           ELSE IF r = "False" THEN ExecutePoints(q, Tail(points), results)
           ELSE Raise(r)

\* the outer loop of execute over series_dict.items()
RECURSIVE ExecuteSeries(_, _, _)
ExecuteSeries(q, items, results) ==
  IF items = <<>> THEN Return(results)
  ELSE LET s == items[1][2]
       IN  IF ~matches_measurement(q, s.measurement)
           THEN ExecuteSeries(q, Tail(items), results)
           ELSE IF ~matches_tags(q, s.tags)
           THEN ExecuteSeries(q, Tail(items), results)
           ELSE LET points == query_range(s, q._start_time, q._end_time)
                    r == ExecutePoints(q, points, results)
                IN  IF r.exc = None
                    THEN ExecuteSeries(q, Tail(items), r.value)
                    ELSE r

\* execute cutting the points of each series to the limit before they are
\* concatenated, instead of cutting the concatenation once
RECURSIVE ExecuteCutPerSeries(_, _, _)
ExecuteCutPerSeries(q, items, results) ==
  IF items = <<>> THEN Return(results)
  ELSE LET r == ExecuteSeries(q, <<items[1]>>, <<>>)
       IN  IF r.exc # None THEN r
           ELSE ExecuteCutPerSeries(q, Tail(items),
                                    results \o PySlice(r.value, None, q._limit))

execute_limit_per_series(q, series_dict) ==
  IF q._limit = None THEN ExecuteSeries(q, series_dict, <<>>)
  ELSE ExecuteCutPerSeries(q, series_dict, <<>>)

execute(q, series_dict) ==
  LET r == ExecuteSeries(q, series_dict, <<>>)
  IN  IF r.exc # None THEN r
      ELSE IF q._limit # None
      THEN Return(PySlice(r.value, None, q._limit))
      ELSE r

----------------------------------------------------------------------------
(* database.py *)

\* InMemoryTSDB.__init__: both maps empty
NewDatabase == [_series |-> <<>>, _measurements |-> <<>>]

\* defaultdict(set).__getitem__: a missing key is inserted with an empty set
DefaultDict(d, k) == IF DictHas(d, k) THEN d ELSE Append(d, <<k, {}>>)

\* StorePoint creating the series in the primary map only, without
\* StorePoint putting a new series in front of the existing ones
StorePoint_new_series_first(db, measurement, point) ==
  LET series_key == get_series_key(point)
      created == ~DictHas(db._series, series_key)
      series1 == IF created
                 THEN << <<series_key, Series(measurement, point.tags)>> >> \o db._series
                 ELSE db._series
      buckets == DefaultDict(db._measurements, measurement)
      measurements1 ==
        IF created
        THEN DictSet(buckets, measurement, DictGet(buckets, measurement) \cup {series_key})
        ELSE db._measurements
  IN  [_series |-> DictSet(series1, series_key,
                           add_point(DictGet(series1, series_key), point)),
       _measurements |-> measurements1]

\* registering its key in the bucket of the measurement
StorePoint_unregistered(db, measurement, point) ==
  LET series_key == get_series_key(point)
      created == ~DictHas(db._series, series_key)
      series1 == IF created
                 THEN DictSet(db._series, series_key, Series(measurement, point.tags))
                 ELSE db._series
  IN  [_series |-> DictSet(series1, series_key,
                           add_point(DictGet(series1, series_key), point)),
       _measurements |-> db._measurements]

\* StorePoint dropping a point whose series already holds an equal one
\* (same measurement, tags, fields and timestamp)
StorePoint_dedup(db, measurement, point) ==
  LET series_key == get_series_key(point)
      SameValue(a, b) == [a EXCEPT !.id = 0] = [b EXCEPT !.id = 0]
      held == IF DictHas(db._series, series_key)
              THEN DictGet(db._series, series_key)._points ELSE <<>>
      created == ~DictHas(db._series, series_key)
      series1 == IF created
                 THEN DictSet(db._series, series_key, Series(measurement, point.tags))
                 ELSE db._series
      buckets == DefaultDict(db._measurements, measurement)
      measurements1 ==
        IF created
        THEN DictSet(buckets, measurement, DictGet(buckets, measurement) \cup {series_key})
        ELSE db._measurements
  IN  IF \E i \in DOMAIN held : SameValue(held[i], point) THEN db
      ELSE [_series |-> DictSet(series1, series_key,
                                add_point(DictGet(series1, series_key), point)),
            _measurements |-> measurements1]

\* the body shared by write and write_points: route the point to the
\* series of its key, creating and registering the series on first sight
StorePoint(db, measurement, point) ==
  LET series_key == get_series_key(point)
      created == ~DictHas(db._series, series_key)
      series1 == IF created
                 THEN DictSet(db._series, series_key, Series(measurement, point.tags))
                 ELSE db._series
      buckets == DefaultDict(db._measurements, measurement)
      measurements1 ==
        IF created
        THEN DictSet(buckets, measurement, DictGet(buckets, measurement) \cup {series_key})
        ELSE db._measurements
  IN  [_series |-> DictSet(series1, series_key,
                           add_point(DictGet(series1, series_key), point)),
       _measurements |-> measurements1]

\* the loop of write_points
RECURSIVE StorePoints(_, _)
StorePoints(db, points) ==
  IF points = <<>> THEN db
  ELSE StorePoints(StorePoint(db, points[1].measurement, points[1]), Tail(points))

\* bool(x) of the arguments of InMemoryTSDB.query
TruthyStr(x) == x # None /\ x.some # <<>>
TruthyDict(x) == x # None /\ x.some # <<>>
TruthyTime(x) == x # None
TruthyInt(x) == x # None /\ x.some # 0

\* the Query that InMemoryTSDB.query builds from its arguments
Database_query_build(measurement, tags, start, end, lim) ==
  LET q0 == Query
      q1 == IF TruthyStr(measurement) THEN from_measurement(q0, measurement.some) ELSE q0
      q2 == IF TruthyDict(tags) THEN where_tags(q1, tags.some) ELSE q1
      q3 == IF TruthyTime(start) \/ TruthyTime(end) THEN time_range(q2, start, end) ELSE q2
      q4 == IF TruthyInt(lim) THEN limit(q3, lim.some) ELSE q3
  IN  q4

\* InMemoryTSDB.query on the database db
Database_query(db, measurement, tags, start, end, lim) ==
  execute(Database_query_build(measurement, tags, start, end, lim), db._series)

\* create_query() followed by the setters, each called with the argument
\* that is given (not None), and execute_query
Database_execute_query(db, q) == execute(q, db._series)

BuiltQuery(measurement, tags, start, end, lim) ==
  LET q0 == Query
      q1 == IF measurement # None THEN from_measurement(q0, measurement.some) ELSE q0
      q2 == IF tags # None THEN where_tags(q1, tags.some) ELSE q1
      q3 == time_range(q2, start, end)
      q4 == IF lim # None THEN limit(q3, lim.some) ELSE q3
  IN  q4

get_measurements(db) == [i \in DOMAIN db._measurements |-> db._measurements[i][1]]

get_series_count(db) == Len(db._series)

RECURSIVE SumCounts(_)
SumCounts(values) ==
  IF values = <<>> THEN 0 ELSE count(values[1]) + SumCounts(Tail(values))

get_point_count(db) == SumCounts(DictValues(db._series))

get_stats(db) ==
  [total_points |-> get_point_count(db),
   series_count |-> get_series_count(db),
   measurement_count |-> Len(db._measurements),
   measurements |-> get_measurements(db)]

DeletedKeys(db, series_keys) == {k \in series_keys : DictHas(db._series, k)}

\* delete_measurement without the final del of the bucket
Database_delete_measurement_keep_bucket(db, measurement) ==
  IF ~DictHas(db._measurements, measurement)
  THEN [db |-> db, ret |-> 0]
  ELSE LET series_keys == DictGet(db._measurements, measurement)
           deleted == DeletedKeys(db, series_keys)
       IN  [db |-> [_series |-> SelectSeq(db._series, LAMBDA e : e[1] \notin deleted),
                    _measurements |-> db._measurements],
            ret |-> Cardinality(deleted)]

\* InMemoryTSDB.delete_measurement: the new database and the returned count
Database_delete_measurement(db, measurement) ==
  IF ~DictHas(db._measurements, measurement)
  THEN [db |-> db, ret |-> 0]
  ELSE LET series_keys == DictGet(db._measurements, measurement)
           deleted == DeletedKeys(db, series_keys)
       IN  [db |-> [_series |-> SelectSeq(db._series, LAMBDA e : e[1] \notin deleted),
                    _measurements |-> DictDel(db._measurements, measurement)],
            ret |-> Cardinality(deleted)]

\* the bucket of measurement after discard(series_key), dropped when empty
PruneBucket(measurements, measurement, series_key) ==
  LET m1 == DefaultDict(measurements, measurement)
      m2 == DictSet(m1, measurement, DictGet(m1, measurement) \ {series_key})
  IN  IF DictGet(m2, measurement) = {} THEN DictDel(m2, measurement) ELSE m2

\* InMemoryTSDB.delete_series: the new database and the returned flag
Database_delete_series(db, measurement, tags, now) ==
  LET temp_point == Point(measurement, <<>>, tags, None, now, 0)
      series_key == get_series_key(temp_point)
  IN  IF DictHas(db._series, series_key)
      THEN [db |-> [_series |-> DictDel(db._series, series_key),
                    _measurements |-> PruneBucket(db._measurements, measurement, series_key)],
            ret |-> TRUE]
      ELSE [db |-> db, ret |-> FALSE]

\* clear emptying the primary map only: the buckets stay
Database_clear_series_only(db) == [_series |-> <<>>, _measurements |-> db._measurements]

\* InMemoryTSDB.clear: the new database
Database_clear(db) == [_series |-> <<>>, _measurements |-> <<>>]

\* InMemoryTSDB.get_all_series_keys
get_all_series_keys(db) == [i \in DOMAIN db._series |-> db._series[i][1]]

\* execute emptying the dictionary it iterates
Query_execute_draining(q, series_dict) ==
  [query |-> q, series_dict |-> <<>>, ret |-> execute(q, series_dict)]

\* a call of Query.execute with what it leaves behind: the Query object
\* and the dictionary it was given, neither of which it assigns to, and
\* the outcome of the call
Query_execute(q, series_dict) ==
  [query |-> q, series_dict |-> series_dict, ret |-> execute(q, series_dict)]

\* calls of query and execute_query: the database after the call and
\* its outcome
InMemoryTSDB_query(db, measurement, tags, start, end, lim) ==
  LET r == Query_execute(Database_query_build(measurement, tags, start, end, lim),
                         db._series)
  IN  [db |-> [_series |-> r.series_dict, _measurements |-> db._measurements],
       ret |-> r.ret]

InMemoryTSDB_execute_query(db, q) ==
  LET r == Query_execute(q, db._series)
  IN  [db |-> [_series |-> r.series_dict, _measurements |-> db._measurements],
       query |-> r.query, ret |-> r.ret]

----------------------------------------------------------------------------
(* aggregatemetric.py *)

\* AggregateMetric(measurement, value, tags, startTime, endTime) with
\* __post_init__; now is the value datetime.now() returns
AggregateMetric(measurement, value, tags, startTime, endTime, now) ==
  [measurement |-> measurement,
   value       |-> value,
   tags        |-> IF tags = None THEN <<>> ELSE tags.some,
   startTime   |-> IF startTime = None THEN now ELSE startTime.some,
   endTime     |-> IF endTime = None THEN now ELSE endTime.some]

----------------------------------------------------------------------------
(* aggregate.py *)

\* isinstance(v, (int, float)): bool is a subclass of int, so True and
\* False pass the test
IsNumber(v) == "int" \in DOMAIN v \/ "bool" \in DOMAIN v

\* the number v stands for in arithmetic and comparisons: True is 1, False 0
NumberOf(v) == IF "int" \in DOMAIN v THEN v.int ELSE IF v.bool THEN 1 ELSE 0

\* field in point.fields and isinstance(point.fields[field], (int, float))
Contributes(point, field) ==
  DictHas(point.fields, field) /\ IsNumber(DictGet(point.fields, field))

\* the loop of sum and average: the running total and count
RECURSIVE TotalLoop(_, _, _)
TotalLoop(points, field, acc) ==
  IF points = <<>> THEN acc
  ELSE TotalLoop(Tail(points), field,
                 IF Contributes(points[1], field)
                 THEN [total |-> FloatAdd(acc.total, NumberOf(DictGet(points[1].fields, field))),
                       count |-> acc.count + 1]
                 ELSE acc)

\* the loop of min (less = TRUE) and of max (less = FALSE): the running
\* extremum, None until a value contributes
RECURSIVE ExtremumLoop(_, _, _, _)
ExtremumLoop(points, field, less, extremum) ==
  IF points = <<>> THEN extremum
  ELSE LET v == DictGet(points[1].fields, field)
           better == \/ extremum = None
                     \/ IF less THEN NumberOf(v) < NumberOf(extremum)
                        ELSE NumberOf(v) > NumberOf(extremum)
       IN  ExtremumLoop(Tail(points), field, less,
                        IF Contributes(points[1], field) /\ better THEN v ELSE extremum)

\* the return statement the four reducers share: points[0] and points[-1]
\* are read without a test, which raises IndexError on an empty list; the
\* clock is not read, since startTime and endTime are given
AggregateResult(points, default, value) ==
  IF points = <<>> THEN Raise("IndexError")
  ELSE Return(AggregateMetric(IF points # <<>> THEN points[1].measurement ELSE default,
                              value,
                              Some(IF points # <<>> THEN points[1].tags ELSE <<>>),
                              Some(points[1].timestamp),
                              Some(points[Len(points)].timestamp),
                              0))

Aggregate_sum(points, field) ==
  LET acc == TotalLoop(points, field, [total |-> Float(0, 1), count |-> 0])
  IN  AggregateResult(points, <<"s", "u", "m">>, acc.total)

\* average dividing the total by the number of points instead of the
\* number of contributing values
Aggregate_average_over_all(points, field) ==
  LET acc == TotalLoop(points, field, [total |-> Float(0, 1), count |-> 0])
      avg == IF Len(points) > 0 THEN FloatDiv(acc.total, Len(points)) ELSE Float(0, 1)
  IN  AggregateResult(points, <<"a", "v", "g">>, avg)

Aggregate_average(points, field) ==
  LET acc == TotalLoop(points, field, [total |-> Float(0, 1), count |-> 0])
      avg == IF acc.count > 0 THEN FloatDiv(acc.total, acc.count) ELSE Float(0, 1)
  IN  AggregateResult(points, <<"a", "v", "g">>, avg)

Aggregate_min(points, field) ==
  AggregateResult(points, <<"m", "i", "n">>, ExtremumLoop(points, field, TRUE, None))

Aggregate_max(points, field) ==
  AggregateResult(points, <<"m", "a", "x">>, ExtremumLoop(points, field, FALSE, None))

----------------------------------------------------------------------------
(* the inputs the operations are called with *)

\* timestamps of the points of SeriesSpec, and the bounds of its range queries
Times == 1..MaxTime
RangeBounds == {None} \cup {Some(t) : t \in Times}

\* timestamps of the points written to the database
DbTimes == {1, 2}
OptDbTimes == {None} \cup {Some(t) : t \in DbTimes}

EmptyStr == <<>>
M == <<"m">>
MKV == <<"m", ",", "k", "=", "v">>
Measurements == {EmptyStr, M, MKV}

J == <<"j">>
K == <<"k">>
V == <<"v">>
W == <<"w">>
TagDicts == {<<>>, << <<K, V>> >>}
OptTagDicts == {None} \cup {Some(t) : t \in TagDicts}

FieldDicts == {<< <<"value", 1>> >>}

Limits == {None, Some(0), Some(1)}

\* the arguments the action query is called with
QueryMeasurements == {None} \cup {Some(m) : m \in Measurements}
QueryFilters ==
  {[tags |-> None, start |-> None, end |-> None, limit |-> None],
   [tags |-> Some(<< <<K, V>> >>), start |-> None, end |-> None, limit |-> None],
   [tags |-> None, start |-> Some(2), end |-> None, limit |-> None],
   [tags |-> None, start |-> None, end |-> Some(1), limit |-> None]}

\* Point objects built by the caller of write_points, identity aside
PointValues ==
  {Point(m, f, Some(t), Some(ts), ts, 0) :
     m \in Measurements, f \in FieldDicts, t \in TagDicts, ts \in DbTimes}

database == [_series |-> _series, _measurements |-> _measurements]

----------------------------------------------------------------------------
(* the database as a state machine: one action per public method *)

Init ==
  /\ _series = NewDatabase._series
  /\ _measurements = NewDatabase._measurements
  /\ series = Series(M, <<>>)
  /\ nextId = 1
  /\ op = [name |-> "__init__"]
  /\ ret = Return(None)

write ==
  \E measurement \in Measurements, fields \in FieldDicts,
     tags \in OptTagDicts, timestamp \in OptDbTimes :
    \* datetime.now() is read only when no timestamp is given
    \E now \in IF TruthyTime(timestamp) THEN {timestamp.some} ELSE DbTimes :
    /\ nextId <= MaxWrites
    /\ LET point == Point(measurement, fields,
                          Some(IF TruthyDict(tags) THEN tags.some ELSE <<>>),
                          Some(IF TruthyTime(timestamp) THEN timestamp.some ELSE now),
                          now, nextId)
           db == StorePoint(database, measurement, point)
       IN  /\ _series' = db._series
           /\ _measurements' = db._measurements
           /\ op' = [name |-> "write", points |-> <<point>>]
    /\ nextId' = nextId + 1
    /\ ret' = Return(None)
    /\ UNCHANGED series

write_points ==
  \E n \in 0..(MaxWrites + 1 - nextId) :
    \E values \in [1..n -> PointValues] :
      LET points == [i \in 1..n |-> [values[i] EXCEPT !.id = nextId + i - 1]]
          db == StorePoints(database, points)
      IN  /\ _series' = db._series
          /\ _measurements' = db._measurements
          /\ op' = [name |-> "write_points", points |-> points]
          /\ nextId' = nextId + n
          /\ ret' = Return(None)
          /\ UNCHANGED series

query ==
  \E measurement \in QueryMeasurements, f \in QueryFilters :
    /\ op' = [name |-> "query", measurement |-> measurement, tags |-> f.tags,
              start |-> f.start, end |-> f.end, limit |-> f.limit]
    /\ ret' = Database_query(database, measurement, f.tags, f.start, f.end, f.limit)
    /\ UNCHANGED <<_series, _measurements, series, nextId>>

delete_measurement ==
  \E measurement \in Measurements :
    LET r == Database_delete_measurement(database, measurement)
    IN  /\ _series' = r.db._series
        /\ _measurements' = r.db._measurements
        /\ op' = [name |-> "delete_measurement", measurement |-> measurement]
        /\ ret' = Return(r.ret)
        /\ UNCHANGED <<series, nextId>>

delete_series ==
  \E measurement \in Measurements, tags \in OptTagDicts :
    \* the timestamp of temp_point is never read: one clock reading stands for all
    LET now == 1
        r == Database_delete_series(database, measurement, tags, now)
    IN  /\ _series' = r.db._series
        /\ _measurements' = r.db._measurements
        /\ op' = [name |-> "delete_series", measurement |-> measurement, tags |-> tags]
        /\ ret' = Return(r.ret)
        /\ UNCHANGED <<series, nextId>>

clear ==
  /\ _series' = Database_clear(database)._series
  /\ _measurements' = Database_clear(database)._measurements
  /\ op' = [name |-> "clear"]
  /\ ret' = Return(None)
  /\ UNCHANGED <<series, nextId>>

Next ==
  \/ write
  \/ write_points
  \/ query
  \/ delete_measurement
  \/ delete_series
  \/ clear

Spec == Init /\ [][Next]_vars

----------------------------------------------------------------------------
(* one Series as a state machine: one action per method *)

SeriesAddPoint ==
  \E timestamp \in Times :
    /\ nextId <= MaxPoints
    /\ LET point == Point(series.measurement, << <<"value", 1>> >>, Some(series.tags),
                          Some(timestamp), timestamp, nextId)
       IN  /\ series' = add_point(series, point)
           /\ op' = [name |-> "add_point", point |-> point]
    /\ nextId' = nextId + 1
    /\ ret' = Return(None)
    /\ UNCHANGED <<_series, _measurements>>

SeriesQueryRange ==
  \E start \in RangeBounds, end \in RangeBounds :
    /\ op' = [name |-> "query_range", start |-> start, end |-> end]
    /\ ret' = Return(query_range(series, start, end))
    /\ UNCHANGED <<_series, _measurements, series, nextId>>

SeriesClear ==
  /\ series' = Series_clear(series)
  /\ op' = [name |-> "clear"]
  /\ ret' = Return(None)
  /\ UNCHANGED <<_series, _measurements, nextId>>

SeriesNext ==
  \/ SeriesAddPoint
  \/ SeriesQueryRange
  \/ SeriesClear

SeriesSpec == Init /\ [][SeriesNext]_vars

----------------------------------------------------------------------------
(* Point.get_series_key as a function of its inputs: the initial state      *)
(* holds two points, the one action computes their keys                     *)

TagKeys == {J, K, <<"j", "k">>}
TagValues == {V, W}

\* every dict of at most MaxTags tags, in every insertion order
KeyTagDicts ==
  UNION {{d \in [1..n -> TagKeys \X TagValues] :
            \A i, j \in 1..n : i # j => d[i][1] # d[j][1]} : n \in 0..MaxTags}

KeyPoints ==
  {Point(m, <<>>, Some(t), Some(1), 1, 0) : m \in Measurements, t \in KeyTagDicts}

KeyInit ==
  /\ _series = NewDatabase._series
  /\ _measurements = NewDatabase._measurements
  /\ series = Series(M, <<>>)
  /\ nextId = 1
  /\ \E p \in KeyPoints, q \in KeyPoints : op = [name |-> "Point", points |-> <<p, q>>]
  /\ ret = Return(None)

GetSeriesKey ==
  /\ op.name = "Point"
  /\ op' = [op EXCEPT !.name = "get_series_key"]
  /\ ret' = Return(<<get_series_key(op.points[1]), get_series_key(op.points[2])>>)
  /\ UNCHANGED <<_series, _measurements, series, nextId>>

KeyNext == GetSeriesKey

KeySpec == KeyInit /\ [][KeyNext]_vars

----------------------------------------------------------------------------
(* Query.matches_tags as a function of its inputs: the initial state holds  *)
(* a tag filter and the tags of a series, the one action applies the filter *)

OptKeyTagDicts == {None} \cup {Some(t) : t \in KeyTagDicts}

TagInit ==
  /\ _series = NewDatabase._series
  /\ _measurements = NewDatabase._measurements
  /\ series = Series(M, <<>>)
  /\ nextId = 1
  /\ \E tags \in OptKeyTagDicts, point_tags \in KeyTagDicts :
       op = [name |-> "Query", tags |-> tags, point_tags |-> point_tags]
  /\ ret = Return(None)

\* Query().where_tags(**tags).matches_tags(point_tags); where_tags is not
\* called when no tag filter is given
MatchesTags ==
  /\ op.name = "Query"
  /\ LET q == IF op.tags = None THEN Query ELSE where_tags(Query, op.tags.some)
     IN  ret' = Return(matches_tags(q, op.point_tags))
  /\ op' = [op EXCEPT !.name = "matches_tags"]
  /\ UNCHANGED <<_series, _measurements, series, nextId>>

TagNext == MatchesTags

TagSpec == TagInit /\ [][TagNext]_vars

----------------------------------------------------------------------------
(* Query.where_field and Query.execute as a function of their inputs: the   *)
(* initial state holds a database and the predicates of a query, the one    *)
(* action builds the query and executes it                                  *)

\* the operators where_field knows, and one it does not
Operators == {"=", "!=", ">", "<", ">=", "<="}
AnyOperators == Operators \cup {"=="}

FieldNames == {"value", "other"}

\* the points of the databases of FilterSpec, in the order they are written
FilterPoints ==
  << Point(M, << <<"other", 1>> >>, None, Some(1), 1, 1),
     Point(M, << <<"value", 0>> >>, None, Some(2), 2, 2),
     Point(M, << <<"value", 1>> >>, None, Some(3), 3, 3),
     Point(M, << <<"value", 2>> >>, None, Some(4), 4, 4),
     Point(M, << <<"value", 1>>, <<"other", 1>> >>, None, Some(5), 5, 5) >>

\* the arguments of one where_field call
FieldFilters ==
  {[field_name |-> n, operator |-> o, value |-> 1] : n \in FieldNames, o \in AnyOperators}

FilterLists == UNION {[1..n -> FieldFilters] : n \in 0..MaxFilters}

\* the chain of where_field calls that adds the predicates in order
RECURSIVE WhereFields(_, _)
WhereFields(q, filters) ==
  IF filters = <<>> THEN q
  ELSE WhereFields(where_field(q, filters[1].field_name, filters[1].operator,
                               filters[1].value),
                   Tail(filters))

FilterInit ==
  /\ \E ids \in SUBSET DOMAIN FilterPoints :
       LET db == StorePoints(NewDatabase, SelectSeq(FilterPoints, LAMBDA p : p.id \in ids))
       IN  /\ _series = db._series
           /\ _measurements = db._measurements
  /\ series = Series(M, <<>>)
  /\ nextId = Len(FilterPoints) + 1
  /\ \E filters \in FilterLists : op = [name |-> "Query", filters |-> filters]
  /\ ret = Return(None)

\* Query().where_field(...)...where_field(...).execute(db._series)
FilterExecute ==
  /\ op.name = "Query"
  /\ ret' = execute(WhereFields(Query, op.filters), _series)
  /\ op' = [op EXCEPT !.name = "execute"]
  /\ UNCHANGED <<_series, _measurements, series, nextId>>

FilterNext == FilterExecute

FilterSpec == FilterInit /\ [][FilterNext]_vars

----------------------------------------------------------------------------
(* the two read paths as functions of their inputs: the initial state holds *)
(* a database and the arguments of a query; one action runs                 *)
(* InMemoryTSDB.query, the other builds the Query by hand and executes it   *)

\* the points of the databases of QuerySpec, in the order they are written:
\* two series of measurement 'm', one of measurement ''
QueryPoints ==
  << Point(M, << <<"value", 1>> >>, None, Some(1), 1, 1),
     Point(M, << <<"value", 1>> >>, Some(<< <<K, V>> >>), Some(2), 2, 2),
     Point(M, << <<"value", 1>> >>, None, Some(2), 2, 3),
     Point(EmptyStr, << <<"value", 1>> >>, None, Some(1), 1, 4) >>

QueryInit ==
  /\ \E ids \in SUBSET DOMAIN QueryPoints :
       LET db == StorePoints(NewDatabase, SelectSeq(QueryPoints, LAMBDA p : p.id \in ids))
       IN  /\ _series = db._series
           /\ _measurements = db._measurements
  /\ series = Series(M, <<>>)
  /\ nextId = Len(QueryPoints) + 1
  /\ \E measurement \in QueryMeasurements, tags \in OptTagDicts,
        start \in RangeBounds, end \in RangeBounds, lim \in Limits :
       op = [name |-> "arguments", measurement |-> measurement, tags |-> tags,
             start |-> start, end |-> end, limit |-> lim]
  /\ ret = Return(None)

\* db.query(measurement, tags, start, end, limit)
QueryConvenience ==
  /\ op.name = "arguments"
  /\ ret' = Database_query(database, op.measurement, op.tags, op.start, op.end, op.limit)
  /\ op' = [op EXCEPT !.name = "query"]
  /\ UNCHANGED <<_series, _measurements, series, nextId>>

\* db.execute_query(db.create_query().from_measurement(..)...limit(..))
QueryBuilder ==
  /\ op.name = "arguments"
  /\ ret' = Database_execute_query(database,
              BuiltQuery(op.measurement, op.tags, op.start, op.end, op.limit))
  /\ op' = [op EXCEPT !.name = "execute_query"]
  /\ UNCHANGED <<_series, _measurements, series, nextId>>

QueryNext ==
  \/ QueryConvenience
  \/ QueryBuilder

QuerySpec == QueryInit /\ [][QueryNext]_vars

----------------------------------------------------------------------------
(* the reducers of Aggregate as functions of their inputs: the initial      *)
(* state holds a database, the result of a query on it and a field name;    *)
(* one action per reducer applies it to that result                         *)

IntValue(n) == [int |-> n]
StrValue(s) == [str |-> s]
BoolValue(b) == [bool |-> b]

\* the points of the databases of AggSpec, in the order they are written:
\* two series, field values of every type, and a point without the field
AggPoints ==
  << Point(M, << <<"value", IntValue(2)>> >>, None, Some(2), 2, 1),
     Point(M, << <<"value", IntValue(0)>> >>, Some(<< <<K, V>> >>), Some(1), 1, 2),
     Point(M, << <<"value", BoolValue(TRUE)>> >>, None, Some(3), 3, 3),
     Point(M, << <<"value", StrValue(<<"x">>)>> >>, Some(<< <<K, V>> >>), Some(2), 2, 4),
     Point(M, << <<"other", IntValue(5)>> >>, None, Some(1), 1, 5),
     Point(M, << <<"value", IntValue(4)>>, <<"other", IntValue(1)>> >>, Some(<< <<K, V>> >>),
           Some(3), 3, 6) >>

\* examples/search_platform_usage.py, add_data_points: eight cpu points in
\* four series, two minutes ago (1) and one minute ago (2)
Cpu == <<"c", "p", "u">>
Region == <<"r", "e", "g", "i", "o", "n">>
Worker == <<"w", "o", "r", "k", "e", "r">>
UsEast == <<"u", "s", "-", "e", "a", "s", "t">>
UsWest == <<"u", "s", "-", "w", "e", "s", "t">>
Jira == <<"j", "i", "r", "a">>
Confluence == <<"c", "o", "n", "f", "l", "u", "e", "n", "c", "e">>

CpuPoint(value, region, worker, timestamp, id) ==
  Point(Cpu, << <<"value", IntValue(value)>> >>,
        Some(<< <<Region, region>>, <<Worker, worker>> >>), Some(timestamp), timestamp, id)

ExamplePoints ==
  << CpuPoint(85, UsEast, Jira, 1, 1),
     CpuPoint(75, UsEast, Jira, 2, 2),
     CpuPoint(55, UsEast, Confluence, 1, 3),
     CpuPoint(65, UsEast, Confluence, 2, 4),
     CpuPoint(45, UsWest, Jira, 1, 5),
     CpuPoint(55, UsWest, Jira, 2, 6),
     CpuPoint(80, UsWest, Confluence, 1, 7),
     CpuPoint(90, UsWest, Confluence, 2, 8) >>

\* the queries whose results are aggregated: every point of a database of
\* AggPoints, and on the example database every cpu point, the jira ones
\* and the jira ones of us-east (log_aggregates)
AggQueries ==
  {[points |-> SelectSeq(AggPoints, LAMBDA p : p.id \in ids),
    measurement |-> None, tags |-> None] : ids \in SUBSET DOMAIN AggPoints}
  \cup
  {[points |-> ExamplePoints, measurement |-> Some(Cpu), tags |-> t] :
     t \in {None, Some(<< <<Worker, Jira>> >>),
            Some(<< <<Worker, Jira>>, <<Region, UsEast>> >>)}}

AggInit ==
  /\ \E a \in AggQueries, field \in FieldNames :
       LET db == StorePoints(NewDatabase, a.points)
       IN  /\ _series = db._series
           /\ _measurements = db._measurements
           /\ op = [name |-> "query", measurement |-> a.measurement, tags |-> a.tags,
                    field |-> field]
           /\ ret = Database_query(db, a.measurement, a.tags, None, None, None)
  /\ series = Series(M, <<>>)
  /\ nextId = 1

\* Aggregate.sum(db.query(...), field), and the same for the other reducers
AggregateSum ==
  /\ op.name = "query"
  /\ ret' = Aggregate_sum(ret.value, op.field)
  /\ op' = [op EXCEPT !.name = "sum"] @@ [points |-> ret.value]
  /\ UNCHANGED <<_series, _measurements, series, nextId>>

AggregateAverage ==
  /\ op.name = "query"
  /\ ret' = Aggregate_average(ret.value, op.field)
  /\ op' = [op EXCEPT !.name = "average"] @@ [points |-> ret.value]
  /\ UNCHANGED <<_series, _measurements, series, nextId>>

AggregateMin ==
  /\ op.name = "query"
  /\ ret' = Aggregate_min(ret.value, op.field)
  /\ op' = [op EXCEPT !.name = "min"] @@ [points |-> ret.value]
  /\ UNCHANGED <<_series, _measurements, series, nextId>>

AggregateMax ==
  /\ op.name = "query"
  /\ ret' = Aggregate_max(ret.value, op.field)
  /\ op' = [op EXCEPT !.name = "max"] @@ [points |-> ret.value]
  /\ UNCHANGED <<_series, _measurements, series, nextId>>

AggNext ==
  \/ AggregateSum
  \/ AggregateAverage
  \/ AggregateMin
  \/ AggregateMax

AggSpec == AggInit /\ [][AggNext]_vars

----------------------------------------------------------------------------
(* the accessors of Series as functions of their inputs: the initial state  *)
(* holds a Series built by add_point and an argument n, one action per      *)
(* accessor applies it                                                      *)

\* the Series after add_point of one point per timestamp, in that order
RECURSIVE AddPoints(_, _, _)
AddPoints(s, timestamps, id) ==
  IF timestamps = <<>> THEN s
  ELSE AddPoints(add_point(s, Point(s.measurement, << <<"value", 1>> >>, Some(s.tags),
                                    Some(timestamps[1]), timestamps[1], id)),
                 Tail(timestamps), id + 1)

Arrivals == UNION {[1..c -> Times] : c \in 0..MaxPoints}

\* the values of n: negative, zero, up to the number of points, and beyond
Counts == (0 - 1)..(MaxPoints + 1)

AccessInit ==
  /\ _series = NewDatabase._series
  /\ _measurements = NewDatabase._measurements
  /\ \E timestamps \in Arrivals :
       /\ series = AddPoints(Series(M, <<>>), timestamps, 1)
       /\ nextId = Len(timestamps) + 1
  /\ \E n \in Counts : op = [name |-> "Series", n |-> n]
  /\ ret = Return(None)

SeriesGetLatest ==
  /\ op.name = "Series"
  /\ ret' = Return(get_latest(series, op.n))
  /\ op' = [op EXCEPT !.name = "get_latest"]
  /\ UNCHANGED <<_series, _measurements, series, nextId>>

SeriesGetOldest ==
  /\ op.name = "Series"
  /\ ret' = Return(get_oldest(series, op.n))
  /\ op' = [op EXCEPT !.name = "get_oldest"]
  /\ UNCHANGED <<_series, _measurements, series, nextId>>

SeriesGetTimeRange ==
  /\ op.name = "Series"
  /\ ret' = Return(get_time_range(series))
  /\ op' = [op EXCEPT !.name = "get_time_range"]
  /\ UNCHANGED <<_series, _measurements, series, nextId>>

AccessNext ==
  \/ SeriesGetLatest
  \/ SeriesGetOldest
  \/ SeriesGetTimeRange

AccessSpec == AccessInit /\ [][AccessNext]_vars

----------------------------------------------------------------------------
(* The builder: one Query object and the setters called on it in any order.
   op.query is the object with its identity, ret the value the call returned *)

BuilderTags == {<<>>, << <<K, V>> >>, << <<K, W>> >>, << <<J, V>> >>}

BuilderPredicates ==
  {[field_name |-> "value", operator |-> ">", value |-> 1],
   [field_name |-> "other", operator |-> "=", value |-> 1]}

\* Query(), the object's identity recorded next to its fields
BuilderInit ==
  /\ _series = <<>>
  /\ _measurements = <<>>
  /\ series = Series(M, <<>>)
  /\ nextId = 2
  /\ op = [name |-> "Query", query |-> [id |-> 1] @@ Query]
  /\ ret = Return(None)

BuilderFromMeasurement ==
  \E measurement \in Measurements :
    LET self == from_measurement(op.query, measurement)
    IN  /\ op' = [name |-> "from_measurement", query |-> self, measurement |-> measurement]
        /\ ret' = Return(self)
        /\ UNCHANGED <<_series, _measurements, series, nextId>>

BuilderWhereTags ==
  \E tags \in BuilderTags :
    LET self == where_tags(op.query, tags)
    IN  /\ op' = [name |-> "where_tags", query |-> self, tags |-> tags]
        /\ ret' = Return(self)
        /\ UNCHANGED <<_series, _measurements, series, nextId>>

BuilderTimeRange ==
  \E start \in OptDbTimes, end \in OptDbTimes :
    LET self == time_range(op.query, start, end)
    IN  /\ op' = [name |-> "time_range", query |-> self, start |-> start, end |-> end]
        /\ ret' = Return(self)
        /\ UNCHANGED <<_series, _measurements, series, nextId>>

BuilderWhereField ==
  /\ Len(op.query._field_filters) < MaxFilters
  /\ \E f \in BuilderPredicates :
       LET self == where_field(op.query, f.field_name, f.operator, f.value)
       IN  /\ op' = [name |-> "where_field", query |-> self, filter |-> f]
           /\ ret' = Return(self)
           /\ UNCHANGED <<_series, _measurements, series, nextId>>

BuilderLimit ==
  \E n \in {0, 1} :
    LET self == limit(op.query, n)
    IN  /\ op' = [name |-> "limit", query |-> self, limit |-> n]
        /\ ret' = Return(self)
        /\ UNCHANGED <<_series, _measurements, series, nextId>>

BuilderNext ==
  \/ BuilderFromMeasurement
  \/ BuilderWhereTags
  \/ BuilderTimeRange
  \/ BuilderWhereField
  \/ BuilderLimit

BuilderSpec == BuilderInit /\ [][BuilderNext]_vars

----------------------------------------------------------------------------
(* Series created, deleted and created again, and queries between: the
   series of one measurement told apart by their tags.  op.created is the
   history of the run: the key of every series created so far, in order *)

OrderTags == {<<>>, << <<K, V>> >>}

OrderQueries ==
  {[measurement |-> m, start |-> s, limit |-> l] :
     m \in {None, Some(M)}, s \in {None, Some(2)}, l \in {None, Some(2)}}

OrderInit ==
  /\ _series = NewDatabase._series
  /\ _measurements = NewDatabase._measurements
  /\ series = Series(M, <<>>)
  /\ nextId = 1
  /\ op = [name |-> "__init__", created |-> <<>>]
  /\ ret = Return(None)

OrderWrite ==
  \E tags \in OrderTags, timestamp \in DbTimes :
    /\ nextId <= MaxOrderWrites
    /\ LET point == Point(M, << <<"value", 1>> >>, Some(tags), Some(timestamp),
                          timestamp, nextId)
           series_key == get_series_key(point)
           db == StorePoint(database, M, point)
       IN  /\ _series' = db._series
           /\ _measurements' = db._measurements
           /\ op' = [name |-> "write", points |-> <<point>>,
                     created |-> IF DictHas(_series, series_key) THEN op.created
                                 ELSE Append(op.created, series_key)]
    /\ nextId' = nextId + 1
    /\ ret' = Return(None)
    /\ UNCHANGED series

OrderDeleteSeries ==
  \E tags \in OrderTags :
    LET r == Database_delete_series(database, M, Some(tags), 1)
    IN  /\ _series' = r.db._series
        /\ _measurements' = r.db._measurements
        /\ op' = [name |-> "delete_series", tags |-> tags, created |-> op.created]
        /\ ret' = Return(r.ret)
        /\ UNCHANGED <<series, nextId>>

OrderQuery ==
  \E q \in OrderQueries :
    /\ op' = [name |-> "query", measurement |-> q.measurement, start |-> q.start,
              limit |-> q.limit, created |-> op.created]
    /\ ret' = Database_query(database, q.measurement, None, q.start, None, q.limit)
    /\ UNCHANGED <<_series, _measurements, series, nextId>>

OrderNext ==
  \/ OrderWrite
  \/ OrderDeleteSeries
  \/ OrderQuery

OrderSpec == OrderInit /\ [][OrderNext]_vars

----------------------------------------------------------------------------
(* Reads only: a database, a Query object built by its caller, and the
   read methods called in any order.  op.calls counts the calls of one
   method with the same arguments in a row *)

ReadQueries ==
  {Query,
   where_field(limit(from_measurement(Query, M), 1), "value", ">", 0),
   BuiltQuery(None, Some(<< <<K, V>> >>), Some(2), None, None),
   where_field(Query, "value", "==", 1)}

Calls(name, args) == IF op.name = name /\ op.args = args THEN op.calls + 1 ELSE 1

ReadInit ==
  /\ \E ids \in SUBSET DOMAIN QueryPoints :
       LET db == StorePoints(NewDatabase, SelectSeq(QueryPoints, LAMBDA p : p.id \in ids))
       IN  /\ _series = db._series
           /\ _measurements = db._measurements
  /\ series = Series(M, <<>>)
  /\ nextId = Len(QueryPoints) + 1
  /\ \E q \in ReadQueries : op = [name |-> "create_query", args |-> <<>>, query |-> q,
                                  calls |-> 1]
  /\ ret = Return(None)

\* the state after a read: r is the call, with the database after it, its
\* outcome and, where a Query was passed, the Query after it
AfterRead(name, args, r, q) ==
  /\ Calls(name, args) <= 2
  /\ _series' = r.db._series
  /\ _measurements' = r.db._measurements
  /\ op' = [name |-> name, args |-> args, query |-> q, calls |-> Calls(name, args)]
  /\ ret' = r.ret
  /\ UNCHANGED <<series, nextId>>

ReadQuery ==
  \E measurement \in QueryMeasurements, f \in QueryFilters :
    AfterRead("query", <<measurement, f>>,
              InMemoryTSDB_query(database, measurement, f.tags, f.start, f.end, f.limit),
              op.query)

ReadExecuteQuery ==
  LET r == InMemoryTSDB_execute_query(database, op.query)
  IN  AfterRead("execute_query", <<>>, r, r.query)

ReadGetStats ==
  AfterRead("get_stats", <<>>,
            [db |-> database, ret |-> Return(get_stats(database))], op.query)

ReadGetMeasurements ==
  AfterRead("get_measurements", <<>>,
            [db |-> database, ret |-> Return(get_measurements(database))], op.query)

ReadGetSeriesCount ==
  AfterRead("get_series_count", <<>>,
            [db |-> database, ret |-> Return(get_series_count(database))], op.query)

ReadGetPointCount ==
  AfterRead("get_point_count", <<>>,
            [db |-> database, ret |-> Return(get_point_count(database))], op.query)

ReadGetAllSeriesKeys ==
  AfterRead("get_all_series_keys", <<>>,
            [db |-> database, ret |-> Return(get_all_series_keys(database))], op.query)

ReadNext ==
  \/ ReadQuery
  \/ ReadExecuteQuery
  \/ ReadGetStats
  \/ ReadGetMeasurements
  \/ ReadGetSeriesCount
  \/ ReadGetPointCount
  \/ ReadGetAllSeriesKeys

ReadSpec == ReadInit /\ [][ReadNext]_vars

----------------------------------------------------------------------------
(* Properties of one Series, checked under SeriesSpec *)

Ascending(points) ==
  \A i \in 1..(Len(points) - 1) : points[i].timestamp <= points[i + 1].timestamp

\* ties in arrival order: of two points with one timestamp, the one
\* inserted earlier (the smaller id) comes first
TiesInArrivalOrder(points) ==
  \A i, j \in DOMAIN points :
    (i < j /\ points[i].timestamp = points[j].timestamp) => points[i].id < points[j].id

\* ties in reverse arrival order: the one inserted later comes first
TiesInReverseArrivalOrder(points) ==
  \A i, j \in DOMAIN points :
    (i < j /\ points[i].timestamp = points[j].timestamp) => points[i].id > points[j].id

HasTie(points) ==
  \E i, j \in DOMAIN points : i < j /\ points[i].timestamp = points[j].timestamp

\* C2: after any sequence of add_point calls, with timestamps arriving in
\* any order, the stored points of the Series are non-decreasing by timestamp.
C2_SortedByTimestamp == Ascending(series._points)

\* C2 witness: add_point has just placed a point that arrived out of order
\* before points stored earlier.
C2_Witness ==
  /\ op.name = "add_point"
  /\ Len(series._points) >= 3
  /\ series._points[Len(series._points)].id # op.point.id
  /\ series._points[1].id # op.point.id

C4_RangeQueryExact ==
  op.name = "query_range" =>
    LET points == series._points
        result == ret.value
        InRange(t) == /\ (op.start # None => op.start.some <= t)
                      /\ (op.end # None => t <= op.end.some)
    IN  /\ ret.exc = None
        /\ result = SelectSeq(points, LAMBDA p : InRange(p.timestamp))
        /\ \E lo \in 0..Len(points), hi \in 0..Len(points) :
             result = SubSeq(points, lo + 1, hi)
        /\ Ascending(result)
        /\ \A i, j \in DOMAIN result : i # j => result[i].id # result[j].id

\* C4 witness: a range query with both bounds has returned several points,
\* among them a point at each bound, and has left out points on both sides.
C4_Witness ==
  /\ op.name = "query_range"
  /\ op.start # None
  /\ op.end # None
  /\ Len(ret.value) >= 2
  /\ ret.value[1].timestamp = op.start.some
  /\ ret.value[Len(ret.value)].timestamp = op.end.some
  /\ series._points[1].timestamp < op.start.some
  /\ series._points[Len(series._points)].timestamp > op.end.some

----------------------------------------------------------------------------
(* Properties of Point.get_series_key, checked under KeySpec *)

\* the text "k1=v1,k2=v2,..." of a list of items
RECURSIVE ItemsText(_)
ItemsText(items) ==
  IF Len(items) = 1 THEN items[1][1] \o <<"=">> \o items[1][2]
  ELSE items[1][1] \o <<"=">> \o items[1][2] \o <<",">> \o ItemsText(Tail(items))

\* the items of tags arranged by strictly increasing key
InKeyOrder(items, tags) ==
  /\ Len(items) = Len(tags)
  /\ DictEq(items, tags)
  /\ \A i \in 1..(Len(items) - 1) : StrLess(items[i][1], items[i + 1][1])

\* C7: get_series_key returns the measurement alone when the tags are
\* empty, otherwise the measurement, a comma, and the key=value pairs sorted
\* by key and joined by commas; two points with the same measurement and the
\* same tag pairs, supplied in any order, get equal keys.
C7_SeriesKeyCanonical ==
  op.name = "get_series_key" =>
    /\ \A n \in {1, 2} :
         LET point == op.points[n]
             key == ret.value[n]
         IN  IF point.tags = <<>>
             THEN key = point.measurement
             ELSE \E items \in KeyTagDicts :
                    /\ InKeyOrder(items, point.tags)
                    /\ key = point.measurement \o <<",">> \o ItemsText(items)
    /\ (/\ op.points[1].measurement = op.points[2].measurement
        /\ DictEq(op.points[1].tags, op.points[2].tags))
       => ret.value[1] = ret.value[2]

\* C7 witness: the keys of two points whose equal tags were supplied in
\* different orders have been computed.
C7_Witness ==
  /\ op.name = "get_series_key"
  /\ op.points[1].measurement = op.points[2].measurement
  /\ DictEq(op.points[1].tags, op.points[2].tags)
  /\ op.points[1].tags # op.points[2].tags
  /\ ret.value[1] = ret.value[2]

----------------------------------------------------------------------------
(* Properties of the database, checked under Spec *)

\* every Point object held by some series of the primary map
StoredPoints ==
  UNION {{_series[i][2]._points[j] : j \in DOMAIN _series[i][2]._points} :
           i \in DOMAIN _series}

\* the bucket of a measurement in the secondary index, empty when absent
Bucket(measurements, m) == IF DictHas(measurements, m) THEN DictGet(measurements, m) ELSE {}

ToSet(list) == {list[i] : i \in DOMAIN list}

\* C1: query(measurement=m, tags=T, start=s, end=e) returns exactly the
\* stored points (written and not since deleted) whose own measurement is
\* m, whose own tags contain every pair of T, and whose timestamp t has
\* s <= t <= e, an absent filter imposing no constraint: none is missing
\* and no other point is returned.
C1_QueryExact ==
  (op.name = "query" /\ op.limit = None) =>
    LET Matches(p) ==
          /\ (op.measurement # None => p.measurement = op.measurement.some)
          /\ (op.tags # None =>
                \A i \in DOMAIN op.tags.some :
                  /\ DictHas(p.tags, op.tags.some[i][1])
                  /\ DictGet(p.tags, op.tags.some[i][1]) = op.tags.some[i][2])
          /\ (op.start # None => op.start.some <= p.timestamp)
          /\ (op.end # None => p.timestamp <= op.end.some)
        expected == {p \in StoredPoints : Matches(p)}
    IN  /\ ret.exc = None
        /\ ToSet(ret.value) = expected
        /\ Len(ret.value) = Cardinality(expected)

\* C5: the secondary index and the primary map agree: every series key
\* listed under some measurement is a key of _series, every key of _series
\* is listed under exactly the measurement of its series, and no bucket is
\* empty.
C5_IndexAgreesWithSeries ==
  /\ \A b \in DOMAIN _measurements :
       \A k \in _measurements[b][2] : DictHas(_series, k)
  /\ \A i \in DOMAIN _series :
       \A m \in DictKeys(_measurements) \cup {_series[i][2].measurement} :
         (_series[i][1] \in Bucket(_measurements, m)) <=> (m = _series[i][2].measurement)
  /\ \A b \in DOMAIN _measurements : _measurements[b][2] # {}

\* C6: all points stored in one Series share the measurement and the exact
\* tag mapping of that Series.
C6_PointsShareSeriesIdentity ==
  \A i \in DOMAIN _series :
    LET s == _series[i][2]
    IN  \A j \in DOMAIN s._points :
          /\ s._points[j].measurement = s.measurement
          /\ DictEq(s._points[j].tags, s.tags)

\* C8: immediately after delete_measurement(m), for every measurement name
\* m, query(measurement=m) returns an empty list and
\* get_stats()['measurements'] does not contain m.
C8_DeletedMeasurementIsGone ==
  op.name = "delete_measurement" =>
    /\ Database_query(database, Some(op.measurement), None, None, None, None)
         = Return(<<>>)
    /\ op.measurement \notin ToSet(get_stats(database).measurements)

\* C9: delete_measurement(m) removes every series registered under m and
\* nothing else, and returns the number of series removed; when m is
\* unknown it returns 0 and leaves the primary map and the secondary index
\* unchanged, without raising.
C9_DeleteMeasurementExact ==
  [][op'.name = "delete_measurement" =>
       LET m == op'.measurement
       IN  /\ ret'.exc = None
           /\ IF ~DictHas(_measurements, m)
              THEN /\ ret'.value = 0
                   /\ _series' = _series
                   /\ _measurements' = _measurements
              ELSE LET registered == DictGet(_measurements, m)
                   IN  /\ _series' = SelectSeq(_series, LAMBDA e : e[1] \notin registered)
                       /\ _measurements' = SelectSeq(_measurements, LAMBDA e : e[1] # m)
                       /\ ret'.value = Len(_series) - Len(_series')]_vars

\* C9 witness: delete_measurement has removed at least one series and left
\* another one in place.
C9_Witness ==
  /\ op.name = "delete_measurement"
  /\ ret.value >= 1
  /\ Len(_series) >= 1

\* C10: delete_series(measurement, tags) returns True exactly when a
\* series for that (measurement, tags) existed; it then removes that single
\* series, removes its key from the measurement's bucket and drops the
\* bucket if it became empty, and leaves every other series and bucket
\* unchanged; when no such series exists it returns False and changes
\* nothing.
C10_DeleteSeriesExact ==
  [][op'.name = "delete_series" =>
       LET m == op'.measurement
           t == IF op'.tags = None THEN <<>> ELSE op'.tags.some
           IsThat(e) == e[2].measurement = m /\ DictEq(e[2].tags, t)
           existed == \E i \in DOMAIN _series : IsThat(_series[i])
           gone == {_series[i][1] : i \in {i \in DOMAIN _series : IsThat(_series[i])}}
       IN  /\ ret' = Return(existed)
           /\ IF existed
              THEN /\ Cardinality(gone) = 1
                   /\ _series' = SelectSeq(_series, LAMBDA e : ~IsThat(e))
                   /\ \A b \in DictKeys(_measurements) \cup DictKeys(_measurements') :
                        /\ Bucket(_measurements', b) =
                             IF b = m THEN Bucket(_measurements, b) \ gone
                             ELSE Bucket(_measurements, b)
                        /\ DictHas(_measurements', b) <=> Bucket(_measurements', b) # {}
              ELSE /\ _series' = _series
                   /\ _measurements' = _measurements]_vars

\* the number of points held under series_key, 0 when there is no such series
SeriesCount(series_dict, series_key) ==
  IF DictHas(series_dict, series_key) THEN count(DictGet(series_dict, series_key)) ELSE 0

\* two Point objects equal in measurement, tags, fields and timestamp
SamePointValue(a, b) ==
  /\ a.measurement = b.measurement
  /\ DictEq(a.tags, b.tags)
  /\ DictEq(a.fields, b.fields)
  /\ a.timestamp = b.timestamp

\* C11: writes are never deduplicated: every write adds exactly 1 to the
\* total point count and to the count of the point's series, also when an
\* equal (measurement, tags, fields, timestamp) is already stored, and the
\* series count changes only when the point's series did not exist yet (so
\* two equal writes add 2 points and the second adds no series).
C11_WritesNeverDeduplicated ==
  [][op'.name = "write" =>
       LET point == op'.points[1]
           series_key == get_series_key(point)
       IN  /\ get_point_count(database') = get_point_count(database) + 1
           /\ SeriesCount(_series', series_key) = SeriesCount(_series, series_key) + 1
           /\ get_series_count(database') =
                get_series_count(database) + (IF DictHas(_series, series_key) THEN 0 ELSE 1)
           /\ (\E q \in StoredPoints : SamePointValue(q, point)) =>
                get_series_count(database') = get_series_count(database)]_vars

\* C11 witness: the same (measurement, tags, fields, timestamp) has been
\* written twice, and its series holds both points.
C11_Witness ==
  /\ op.name = "write"
  /\ \E q \in StoredPoints :
       /\ q.id # op.points[1].id
       /\ SamePointValue(q, op.points[1])
  /\ SeriesCount(_series, get_series_key(op.points[1])) = 2
  /\ get_point_count(database) = 2
  /\ get_series_count(database) = 1

----------------------------------------------------------------------------
(* Properties of Query.matches_tags, checked under TagSpec *)

\* C12: the tag filter is a conjunctive subset match: a series matches a
\* tag filter T exactly when every pair of T is a pair of the series's
\* tags; extra series tags do not prevent a match, a missing key or a
\* different value does; without a tag filter every series matches.
C12_TagFilterIsSubsetMatch ==
  op.name = "matches_tags" =>
    /\ ret.exc = None
    /\ ret.value = (op.tags = None \/ ToSet(op.tags.some) \subseteq ToSet(op.point_tags))

\* C12 witness: a series with two tags has matched a filter naming one of
\* them (tags {a:1, b:2} match {a:1}).
C12_Witness ==
  /\ op.name = "matches_tags"
  /\ op.tags # None
  /\ Len(op.tags.some) = 1
  /\ Len(op.point_tags) = 2
  /\ ret.value = TRUE

\* the other half of the example: a series with two tags has failed a
\* filter of two pairs of which it carries one ({a:1, b:2} against {a:1, c:3})
TagMismatchReached ==
  /\ op.name = "matches_tags"
  /\ op.tags # None
  /\ Len(op.tags.some) = 2
  /\ Len(op.point_tags) = 2
  /\ \E i \in 1..2 : op.tags.some[i] \in ToSet(op.point_tags)
  /\ \E i \in 1..2 : ~DictHas(op.point_tags, op.tags.some[i][1])
  /\ ret.value = FALSE

----------------------------------------------------------------------------
(* Properties of the field predicates, checked under FilterSpec *)

\* the comparison a supported operator stands for
Compare(a, operator, b) ==
  \/ operator = "="  /\ a = b
  \/ operator = "!=" /\ a # b
  \/ operator = ">"  /\ a > b
  \/ operator = "<"  /\ a < b
  \/ operator = ">=" /\ a >= b
  \/ operator = "<=" /\ a <= b

\* the point has the field of the predicate with a value that satisfies it
Satisfies(point, f) ==
  \E i \in DOMAIN point.fields :
    /\ point.fields[i][1] = f.field_name
    /\ Compare(point.fields[i][2], f.operator, f.value)

\* C13: field predicates are conjunctive: when every predicate of the
\* query has a supported operator, execute returns normally and a stored
\* point is in the result exactly when it satisfies every predicate; a
\* point without the field of some predicate is never in a result,
\* whatever the operator ("!=" included), and when every stored point
\* lacks the field of the first predicate nothing is raised.
C13_FieldPredicatesConjunctive ==
  op.name = "execute" =>
    LET filters == op.filters
        Lacks(p, f) == ~DictHas(p.fields, f.field_name)
    IN  /\ (\A i \in DOMAIN filters : filters[i].operator \in Operators) =>
             /\ ret.exc = None
             /\ ToSet(ret.value) =
                  {p \in StoredPoints : \A i \in DOMAIN filters : Satisfies(p, filters[i])}
             /\ Len(ret.value) = Cardinality(ToSet(ret.value))
        /\ ret.exc = None =>
             \A p \in ToSet(ret.value), i \in DOMAIN filters : ~Lacks(p, filters[i])
        /\ (filters # <<>> /\ \A p \in StoredPoints : Lacks(p, filters[1])) =>
             ret = Return(<<>>)

\* C13 witness: a query with two predicates has returned some points and
\* left out a point that satisfies its first predicate only, and a point
\* that lacks the field of a "!=" predicate.
C13_Witness ==
  /\ op.name = "execute"
  /\ Len(op.filters) = 2
  /\ ret.exc = None
  /\ ret.value # <<>>
  /\ \E p \in StoredPoints \ ToSet(ret.value) :
       Satisfies(p, op.filters[1]) /\ ~Satisfies(p, op.filters[2])
  /\ \E p \in StoredPoints \ ToSet(ret.value), i \in 1..2 :
       /\ op.filters[i].operator = "!="
       /\ ~DictHas(p.fields, op.filters[i].field_name)

\* C16: a query carrying a where_field predicate whose operator is not one
\* of =, !=, >, <, >=, <= always fails with an error when built or
\* executed, whatever the database contains; it never returns a normal
\* result list.
C16_UnsupportedOperatorFails ==
  (/\ op.name = "execute"
   /\ \E i \in DOMAIN op.filters : op.filters[i].operator \notin Operators)
    => ret.exc # None

\* an unsupported operator does raise ValueError once it is evaluated on a
\* point that has the field
UnsupportedOperatorRaisedReached ==
  /\ op.name = "execute"
  /\ ret = Raise("ValueError")

----------------------------------------------------------------------------
(* Properties of the two read paths, checked under QuerySpec *)

\* the Query object the last call of QuerySpec has executed
ExecutedQuery ==
  IF op.name = "query"
  THEN Database_query_build(op.measurement, op.tags, op.start, op.end, op.limit)
  ELSE BuiltQuery(op.measurement, op.tags, op.start, op.end, op.limit)

\* C14: when a limit n >= 0 is set on a query, the result is the first n
\* entries of the result the same query returns without a limit (the whole
\* of it when it has fewer), cut once after all series are concatenated;
\* so the result has at most n entries.
C14_LimitCutsConcatenation ==
  (/\ op.name \in {"query", "execute_query"}
   /\ ExecutedQuery._limit # None
   /\ ExecutedQuery._limit.some >= 0) =>
    LET n == ExecutedQuery._limit.some
        unlimited == execute([ExecutedQuery EXCEPT !._limit = None], _series)
    IN  /\ ret.exc = None
        /\ Len(ret.value) = Min(n, Len(unlimited.value))
        /\ Len(ret.value) <= n
        /\ \A i \in DOMAIN ret.value : ret.value[i] = unlimited.value[i]

\* C14 witness: a query with limit 1 has returned one point although two
\* series hold matching points.
C14_Witness ==
  /\ op.name \in {"query", "execute_query"}
  /\ ExecutedQuery._limit = Some(1)
  /\ Len(ret.value) = 1
  /\ \E i, j \in DOMAIN _series :
       /\ i # j
       /\ execute([ExecutedQuery EXCEPT !._limit = None], <<_series[i]>>).value # <<>>
       /\ execute([ExecutedQuery EXCEPT !._limit = None], <<_series[j]>>).value # <<>>

\* C15: InMemoryTSDB.query(measurement, tags, start, end, limit) returns,
\* for every combination of argument values (a limit of 0 and the
\* measurement '' included), the same list as a Query built with
\* from_measurement, where_tags, time_range and limit set to those values
\* and executed against the same database.
C15_ConvenienceEqualsBuilder ==
  op.name = "query" =>
    ret = Database_execute_query(database,
            BuiltQuery(op.measurement, op.tags, op.start, op.end, op.limit))

----------------------------------------------------------------------------
(* Properties of the reducers, checked under AggSpec *)

Reducers == {"sum", "average", "min", "max"}

\* C17: an empty point collection is not an error for the aggregates: sum
\* and average return a result with value 0.0, min and max a result with
\* an absent value, all four with defaulted measurement and empty tags,
\* without raising.
C17_EmptyInputIsNotAnError ==
  (op.name \in Reducers /\ op.points = <<>>) =>
    /\ ret.exc = None
    /\ ret.value.value = (IF op.name \in {"sum", "average"} THEN Float(0, 1) ELSE None)
    /\ ret.value.tags = <<>>

RECURSIVE SeqSum(_)
SeqSum(values) == IF values = <<>> THEN 0 ELSE values[1] + SeqSum(Tail(values))

\* the values of the field that are numbers and not booleans, in input order
NumericValues(points, field) ==
  LET IsNumeric(p) == /\ DictHas(p.fields, field)
                      /\ "int" \in DOMAIN DictGet(p.fields, field)
      numeric == SelectSeq(points, IsNumeric)
  IN  [i \in DOMAIN numeric |-> DictGet(numeric[i].fields, field).int]

\* C18: only points whose named field is present and numeric contribute
\* to sum, average, min and max; points where the field is missing, a
\* string or a boolean change neither the total, the count nor the
\* extremum: the value is the one the numeric values alone give.
C18_OnlyNumericFieldsContribute ==
  (op.name \in Reducers /\ op.points # <<>>) =>
    LET values == NumericValues(op.points, op.field)
        n == Len(values)
    IN  /\ ret.exc = None
        /\ op.name = "sum" => ret.value.value = Float(SeqSum(values), 1)
        /\ op.name = "average" =>
             ret.value.value = (IF n = 0 THEN Float(0, 1) ELSE Float(SeqSum(values), n))
        /\ op.name \in {"min", "max"} =>
             IF n = 0 THEN ret.value.value = None
             ELSE /\ "int" \in DOMAIN ret.value.value
                  /\ \E i \in 1..n : ret.value.value.int = values[i]
                  /\ \A i \in 1..n : IF op.name = "min"
                                     THEN ret.value.value.int <= values[i]
                                     ELSE ret.value.value.int >= values[i]

\* the values the reducers take into account, in input order
ContributingValues(points, field) ==
  LET taken == SelectSeq(points, LAMBDA p : Contributes(p, field))
  IN  [i \in DOMAIN taken |-> NumberOf(DictGet(taken[i].fields, field))]

\* the values of the field "value" of the eight points of the example
ExampleValues == <<85, 75, 55, 65, 45, 55, 80, 90>>

\* C19: for a non-empty point collection, sum returns the arithmetic total
\* of the contributing values, min and max the smallest and the largest
\* contributing value (absent, not 0, when no value contributes), and
\* average the total divided by the number of contributing values (0.0
\* when none); for the values [85, 75, 55, 65, 45, 55, 80, 90] this gives
\* sum 550, average 68.75, min 45 and max 90.
C19_ReducersComputeTheirValue ==
  (op.name \in Reducers /\ op.points # <<>>) =>
    LET values == ContributingValues(op.points, op.field)
        n == Len(values)
        value == ret.value.value
    IN  /\ ret.exc = None
        /\ op.name = "sum" => value.den = 1 /\ value.num = SeqSum(values)
        /\ op.name = "average" =>
             IF n = 0 THEN value.num = 0
             ELSE value.num * n = SeqSum(values) * value.den
        /\ op.name \in {"min", "max"} =>
             IF n = 0 THEN value = None
             ELSE /\ value # None
                  /\ \E i \in 1..n : NumberOf(value) = values[i]
                  /\ \A i \in 1..n : IF op.name = "min" THEN NumberOf(value) <= values[i]
                                     ELSE NumberOf(value) >= values[i]
        /\ values = ExampleValues =>
             /\ op.name = "sum" => value = [num |-> 550, den |-> 1]
             /\ op.name = "average" => value.num * 100 = 6875 * value.den
             /\ op.name = "min" => value = IntValue(45)
             /\ op.name = "max" => value = IntValue(90)

\* C19 witness: the average of the eight values of the example is 68.75.
C19_Witness ==
  /\ op.name = "average"
  /\ ContributingValues(op.points, op.field) = ExampleValues
  /\ ret.value.value = Float(6875, 100)

\* min and max are absent, and sum and average 0.0, for a non-empty
\* collection without a contributing value
NoContributionReached ==
  /\ op.name = "min"
  /\ op.points # <<>>
  /\ ContributingValues(op.points, op.field) = <<>>
  /\ ret.value.value = None

\* C20: for every non-empty query result passed to an aggregate, results
\* concatenating several series included, the returned AggregateMetric
\* carries the measurement and tags of the first input point, its
\* startTime is the earliest and its endTime the latest timestamp among
\* the input points, so startTime <= endTime.
C20_MetricSpansEarliestToLatest ==
  (op.name \in Reducers /\ op.points # <<>>) =>
    /\ ret.exc = None
    /\ ret.value.measurement = op.points[1].measurement
    /\ ret.value.tags = op.points[1].tags
    /\ \A i \in DOMAIN op.points :
         /\ ret.value.startTime <= op.points[i].timestamp
         /\ op.points[i].timestamp <= ret.value.endTime
    /\ \E i \in DOMAIN op.points : ret.value.startTime = op.points[i].timestamp
    /\ \E i \in DOMAIN op.points : ret.value.endTime = op.points[i].timestamp
    /\ ret.value.startTime <= ret.value.endTime

----------------------------------------------------------------------------
(* Further properties of the database, checked under Spec *)

\* C21: in every reachable state get_stats() reports total_points equal to
\* the sum of count() over all series of the primary map, series_count
\* equal to the number of series, measurement_count equal to the length of
\* the measurements list, and a measurements list that names exactly the
\* distinct measurements of the stored series, each once.
C21_StatsAgreeWithStore ==
  LET stats == get_stats(database)
      counts == [i \in DOMAIN _series |-> Len(_series[i][2]._points)]
  IN  /\ stats.total_points = SeqSum(counts)
      /\ stats.total_points = Cardinality(StoredPoints)
      /\ stats.series_count = Len(_series)
      /\ stats.measurement_count = Len(stats.measurements)
      /\ ToSet(stats.measurements) = {_series[i][2].measurement : i \in DOMAIN _series}
      /\ Cardinality(ToSet(stats.measurements)) = Len(stats.measurements)

----------------------------------------------------------------------------
(* Properties of the accessors of Series, checked under AccessSpec *)

\* C22: for a Series holding c points, get_latest(n) returns the last
\* min(n, c) points and get_oldest(n) the first min(n, c) points, both in
\* ascending timestamp order, and both return an empty list for every
\* n <= 0; get_time_range returns the first and last stored timestamps, or
\* (None, None) for an empty Series.
C22_AccessorsExact ==
  LET c == Len(series._points)
      k == Min(op.n, c)
  IN  /\ op.name = "get_latest" =>
           /\ ret.exc = None
           /\ Ascending(ret.value)
           /\ IF op.n <= 0 THEN ret.value = <<>>
              ELSE /\ Len(ret.value) = k
                   /\ \A i \in 1..k : ret.value[i] = series._points[c - k + i]
      /\ op.name = "get_oldest" =>
           /\ ret.exc = None
           /\ Ascending(ret.value)
           /\ IF op.n <= 0 THEN ret.value = <<>>
              ELSE /\ Len(ret.value) = k
                   /\ \A i \in 1..k : ret.value[i] = series._points[i]
      /\ op.name = "get_time_range" =>
           /\ ret.exc = None
           /\ Len(ret.value) = 2
           /\ IF c = 0 THEN ret.value[1] = None /\ ret.value[2] = None
              ELSE /\ ret.value[1] = series._points[1].timestamp
                   /\ ret.value[2] = series._points[c].timestamp
                   /\ \A i \in 1..c : /\ ret.value[1] <= series._points[i].timestamp
                                      /\ series._points[i].timestamp <= ret.value[2]

\* C22 witness: get_latest(2) has returned the last two of at least three
\* points that arrived out of timestamp order.
C22_Witness ==
  /\ op.name = "get_latest"
  /\ op.n = 2
  /\ Len(series._points) >= 3
  /\ Len(ret.value) = 2
  /\ ret.value[1].timestamp < ret.value[2].timestamp
  /\ \E i \in 1..(Len(series._points) - 1) :
       series._points[i].id > series._points[i + 1].id

\* n beyond the number of points gives all of them
WholeSeriesReached ==
  /\ op.name = "get_latest"
  /\ op.n > Len(series._points)
  /\ Len(series._points) >= 2
  /\ ret.value = series._points

----------------------------------------------------------------------------
(* Further properties of one Series, checked under SeriesSpec *)

\* C28: in every reachable state of a Series the two parallel lists agree:
\* _timestamps and _points have the same length and _timestamps[i] is the
\* timestamp of _points[i] for every index i, after any sequence of
\* add_point and clear.
C28_ParallelListsAgree ==
  /\ Len(series._timestamps) = Len(series._points)
  /\ \A i \in DOMAIN series._points : series._timestamps[i] = series._points[i].timestamp

\* C28 witness: after a clear has dropped the first point, a point has
\* been inserted before a stored one.
C28_Witness ==
  /\ op.name = "add_point"
  /\ Len(series._points) >= 2
  /\ \A i \in DOMAIN series._points : series._points[i].id # 1
  /\ series._points[1].id = op.point.id
  /\ series._points[1].timestamp < series._points[2].timestamp

\* C29: a range query whose start bound is later than its end bound
\* returns an empty list for every Series content, without an error, and so
\* does InMemoryTSDB.query on a database holding that Series.
C29_InvertedRangeIsEmpty ==
  (/\ op.name = "query_range"
   /\ op.start # None
   /\ op.end # None
   /\ op.start.some > op.end.some) =>
    /\ ret = Return(<<>>)
    /\ Database_query(StorePoints(NewDatabase, series._points),
                      None, None, op.start, op.end, None) = Return(<<>>)

\* C29 witness: a query with start later than end has run on a Series that
\* holds points at both bounds and between them.
C29_Witness ==
  /\ op.name = "query_range"
  /\ op.start # None
  /\ op.end # None
  /\ op.start.some > op.end.some + 1
  /\ \E i, j, k \in DOMAIN series._points :
       /\ series._points[i].timestamp = op.end.some
       /\ series._points[j].timestamp = op.start.some
       /\ series._points[k].timestamp > op.end.some
       /\ series._points[k].timestamp < op.start.some
  /\ ret.value = <<>>

----------------------------------------------------------------------------
(* A further property of get_series_key, checked under KeySpec *)

\* C26: distinct (measurement, tag mapping) pairs always get distinct
\* series keys, for all measurement names and tag keys and values, those
\* containing ',' or '=' included: two points that differ in measurement
\* or in tags never have the key of one Series.
C26_DistinctIdentitiesDistinctKeys ==
  op.name = "get_series_key" =>
    LET p == op.points[1]
        q == op.points[2]
    IN  (p.measurement # q.measurement \/ ~DictEq(p.tags, q.tags)) =>
          ret.value[1] # ret.value[2]

----------------------------------------------------------------------------
(* The effect of the writes, checked under Spec *)

\* C24: a write or write_points call creates a Series only on the first
\* sight of a point's series key, registering it in the primary map and in
\* the bucket of that point's measurement, and inserts every point into the
\* series of its own key; it creates no second series for a key that
\* exists, keeps the points a series held, and leaves every series whose
\* key no written point has unchanged.
C24_WriteCreatesOnFirstSight ==
  [][op'.name \in {"write", "write_points"} =>
       LET points == op'.points
           keys == {get_series_key(points[i]) : i \in DOMAIN points}
           new == {k \in keys : ~DictHas(_series, k)}
           First(k) == points[CHOOSE i \in DOMAIN points :
                               /\ get_series_key(points[i]) = k
                               /\ \A j \in 1..(i - 1) : get_series_key(points[j]) # k]
       IN  /\ DictKeys(_series') = DictKeys(_series) \cup keys
           /\ Len(_series') = Len(_series) + Cardinality(new)
           /\ \A k \in new :
                /\ DictGet(_series', k).measurement = First(k).measurement
                /\ DictGet(_series', k).tags = First(k).tags
                /\ k \in Bucket(_measurements', First(k).measurement)
           /\ \A i \in DOMAIN points :
                points[i] \in ToSet(DictGet(_series', get_series_key(points[i]))._points)
           /\ \A k \in DictKeys(_series) :
                LET before == DictGet(_series, k)
                    after == DictGet(_series', k)
                IN  IF k \in keys
                    THEN /\ ToSet(after._points) =
                              ToSet(before._points) \cup
                                {points[i] : i \in {i \in DOMAIN points :
                                                      get_series_key(points[i]) = k}}
                         /\ after.measurement = before.measurement
                         /\ after.tags = before.tags
                    ELSE after = before
           /\ \A m \in DictKeys(_measurements) \cup DictKeys(_measurements') :
                Bucket(_measurements', m) =
                  Bucket(_measurements, m) \cup {k \in new : First(k).measurement = m}]_vars

\* C24 witness: a write has created a second series and left the first
\* one, with its point, as it was.
C24_Witness ==
  /\ op.name = "write"
  /\ Len(_series) = 2
  /\ _series[1][2]._points # <<>>
  /\ _series[2][1] = get_series_key(op.points[1])
  /\ _series[2][2]._points = op.points
  /\ _series[2][1] \in Bucket(_measurements, op.points[1].measurement)

\* a batch of two points of one key creates one series and fills it
BatchSharesSeriesReached ==
  /\ op.name = "write_points"
  /\ Len(op.points) = 2
  /\ get_series_key(op.points[1]) = get_series_key(op.points[2])
  /\ Len(_series) = 1
  /\ Len(_series[1][2]._points) = 2

\* C30: after clear(), from any reachable state, the database is
\* indistinguishable from a newly constructed one: get_stats reports 0
\* points, 0 series, 0 measurements and an empty measurement list, every
\* query returns an empty list, and a write that follows creates its
\* series afresh, containing only the written point.
C30_ClearGivesNewDatabase ==
  [][/\ op'.name = "clear" =>
          /\ database' = NewDatabase
          /\ get_stats(database') = [total_points |-> 0, series_count |-> 0,
                                     measurement_count |-> 0, measurements |-> <<>>]
          /\ \A measurement \in QueryMeasurements, f \in QueryFilters, lim \in Limits :
               Database_query(database', measurement, f.tags, f.start, f.end, lim)
                 = Return(<<>>)
     /\ (op.name = "clear" /\ op'.name = "write") =>
          LET point == op'.points[1]
              series_key == get_series_key(point)
          IN  /\ _series' = << <<series_key,
                                 [measurement |-> point.measurement, tags |-> point.tags,
                                  _points |-> <<point>>,
                                  _timestamps |-> <<point.timestamp>>]>> >>
              /\ _measurements' = << <<point.measurement, {series_key}>> >>
              /\ database' = StorePoint(NewDatabase, point.measurement, point)]_vars

\* C30 witness: clear has run after a write left a series and a bucket,
\* and the database holds nothing.
C30_Witness ==
  /\ op.name = "clear"
  /\ nextId > 1
  /\ _series = <<>>
  /\ _measurements = <<>>

\* the fields of the object other than those named are as they were
OtherFieldsKept(before, after, names) ==
  /\ DOMAIN after = DOMAIN before
  /\ \A name \in DOMAIN before \ names : after[name] = before[name]

\* C25: the builder's setters accumulate.  where_tags merges into the tag
\* filter set so far, the last value winning per key; where_field appends
\* a predicate and keeps the earlier ones; time_range, limit and
\* from_measurement overwrite; every setter returns the Query it was
\* called on and changes nothing else of it.
C25_SettersAccumulate ==
  [][LET before == op.query
         after == op'.query
     IN  /\ ret' = Return(after)
         /\ after.id = before.id
         /\ op'.name = "where_tags" =>
              LET current == IF before._tags = None THEN <<>> ELSE before._tags.some
                  merged == after._tags.some
              IN  /\ after._tags # None
                  /\ DictKeys(merged) = DictKeys(current) \cup DictKeys(op'.tags)
                  /\ Len(merged) = Cardinality(DictKeys(merged))
                  /\ \A k \in DictKeys(merged) :
                       DictGet(merged, k) = IF DictHas(op'.tags, k)
                                            THEN DictGet(op'.tags, k)
                                            ELSE DictGet(current, k)
                  /\ OtherFieldsKept(before, after, {"_tags"})
         /\ op'.name = "where_field" =>
              /\ Len(after._field_filters) = Len(before._field_filters) + 1
              /\ SubSeq(after._field_filters, 1, Len(before._field_filters))
                   = before._field_filters
              /\ after._field_filters[Len(after._field_filters)] = op'.filter
              /\ OtherFieldsKept(before, after, {"_field_filters"})
         /\ op'.name = "time_range" =>
              /\ after._start_time = op'.start
              /\ after._end_time = op'.end
              /\ OtherFieldsKept(before, after, {"_start_time", "_end_time"})
         /\ op'.name = "limit" =>
              /\ after._limit = Some(op'.limit)
              /\ OtherFieldsKept(before, after, {"_limit"})
         /\ op'.name = "from_measurement" =>
              /\ after._measurement = Some(op'.measurement)
              /\ OtherFieldsKept(before, after, {"_measurement"})]_vars

\* C25 witness: where_tags has just overwritten the value of a key set
\* before another key, two predicates have been added, and the other
\* setters have been called.
C25_Witness ==
  /\ op.name = "where_tags"
  /\ op.tags = << <<K, W>> >>
  /\ op.query._tags = Some(<< <<K, W>>, <<J, V>> >>)
  /\ Len(op.query._field_filters) = MaxFilters
  /\ op.query._field_filters[1] # op.query._field_filters[2]
  /\ op.query._measurement # None
  /\ op.query._limit # None
  /\ op.query._start_time # None

\* the existing series in the order of their latest creation: the history
\* without the keys that no longer exist and without the earlier lives of
\* those created again
CreationOrder ==
  LET created == op.created
      Kept(i) == /\ DictHas(_series, created[i])
                 /\ \A j \in (i + 1)..Len(created) : created[j] # created[i]
      F[i \in 0..Len(created)] ==
        IF i = 0 THEN <<>>
        ELSE IF Kept(i) THEN Append(F[i - 1], created[i]) ELSE F[i - 1]
  IN  F[Len(created)]

\* the place of a key in a list of keys
Place(keys, k) == CHOOSE i \in DOMAIN keys : keys[i] = k

\* C23: in every query result the points of one series form a contiguous
\* block in ascending timestamp order, and the blocks follow the iteration
\* order of the series collection, which is the order in which the
\* existing series were created, a series deleted and created again being
\* last.
C23_BlocksInCreationOrder ==
  /\ [i \in DOMAIN _series |-> _series[i][1]] = CreationOrder
  /\ op.name = "query" =>
       LET result == ret.value
           Key(i) == get_series_key(result[i])
       IN  /\ ret.exc = None
           /\ \A i, j \in DOMAIN result :
                i < j =>
                  /\ Place(CreationOrder, Key(i)) <= Place(CreationOrder, Key(j))
                  /\ Key(i) = Key(j) => result[i].timestamp <= result[j].timestamp
           /\ \A i, j, k \in DOMAIN result :
                (i < j /\ j < k /\ Key(i) = Key(k)) => Key(j) = Key(i)

\* C23 witness: a series was created first, deleted and created again
\* after another; the query returns the other's block, two points written
\* out of timestamp order, before the point of the re-created series.
C23_Witness ==
  /\ op.name = "query"
  /\ Len(op.created) = 3
  /\ op.created[1] = op.created[3]
  /\ op.created[2] # op.created[1]
  /\ Len(ret.value) = 3
  /\ get_series_key(ret.value[1]) = op.created[2]
  /\ get_series_key(ret.value[2]) = op.created[2]
  /\ get_series_key(ret.value[3]) = op.created[1]
  /\ ret.value[1].id > ret.value[2].id
  /\ ret.value[1].timestamp < ret.value[2].timestamp

Reads ==
  {"query", "execute_query", "get_stats", "get_measurements", "get_series_count",
   "get_point_count", "get_all_series_keys"}

\* C27: the read operations have no effect on the store.  query,
\* execute_query, get_stats, get_measurements, get_series_count,
\* get_point_count and get_all_series_keys leave the primary map, the
\* secondary index and every series's points and timestamps as they were;
\* executing a Query leaves the Query's filters as they were; and the same
\* read made twice in a row has the same outcome both times.
C27_ReadsLeaveStoreUnchanged ==
  [][op'.name \in Reads =>
       /\ _series' = _series
       /\ _measurements' = _measurements
       /\ \A i \in DOMAIN _series :
            /\ _series'[i][2]._points = _series[i][2]._points
            /\ _series'[i][2]._timestamps = _series[i][2]._timestamps
       /\ op'.query = op.query
       /\ op'.calls = 2 => ret' = ret]_vars

\* C27 witness: a Query with a measurement, a limit and a field predicate
\* has been executed a second time on a database of several series and
\* has returned a point.
C27_Witness ==
  /\ op.name = "execute_query"
  /\ op.calls = 2
  /\ op.query._limit # None
  /\ op.query._field_filters # <<>>
  /\ Len(_series) >= 2
  /\ ret.exc = None
  /\ ret.value # <<>>

\* a query through the convenience method repeated, its result cut short
\* by neither filter nor limit
RepeatedQueryReached ==
  /\ op.name = "query"
  /\ op.calls = 2
  /\ ret.exc = None
  /\ Len(ret.value) = Len(QueryPoints)

====
